---- MODULE Spec2Model ----
(***************************************************************************)
(* Row-settling model of shebanow/Arch_MSA_Rewrite_Modeling.               *)
(*                                                                         *)
(* Two state machines share this module:                                   *)
(*   Spec    the tick simulation calculate_row_states_over_time            *)
(*           (src/src/row_performance_analyzer.py), one action per loop    *)
(*           iteration;                                                    *)
(*   SpecCF  calls of the closed-form calculators (both copies of          *)
(*           calculate_usable_fraction, calculate_settled_rows_over_time), *)
(*           one action per function, arguments drawn from bounded sets.   *)
(***************************************************************************)
EXTENDS Integers, Sequences, FiniteSets

VARIABLES
    pc,                  \* position in calculate_row_states_over_time ("off": not called;
                         \* "object": one RowState under its methods)
    usage_time_ns,       \* argument: the horizon
    total_rows,          \* argument: the number of rows
    row_states,          \* the list of RowState objects (1-based here)
    master_color,
    change_in_progress,
    current_row_index,
    time_ns,             \* the loop variable (0 before the first iteration)
    n_samples,           \* the length of the four parallel lists
    samples,             \* the lists' last MaxKept entries, as one list of tuples
    result,              \* the returned list (its last MaxKept entries)
    call,                \* closed-form machine: the last call made
    ret                  \* closed-form machine: what that call returned

simVars == <<pc, usage_time_ns, total_rows, row_states, master_color,
             change_in_progress, current_row_index, time_ns, n_samples, samples,
             result>>
cfVars == <<call, ret>>
vars == <<pc, usage_time_ns, total_rows, row_states, master_color,
          change_in_progress, current_row_index, time_ns, n_samples, samples,
          result, call, ret>>

(***************************************************************************)
(* Bounds of the model and constants of the program.                       *)
(***************************************************************************)
MaxRows == 3
MaxShortHorizon == 2
MaxHorizon == 5100
MaxBankHorizon == 2100
MaxUsageTime == 2050
MaxWriteTime == 2
MaxSettling == 2
MaxSettlingUs == 2
MaxSeriesHorizon == 2030
MaxKept == 4
MaxInstances == 5
MaxOverlapRows == 3992
MaxOverlapHorizon == 4003
MaxSetterArg == 7

DefaultTotalRows == 1024
SettlingNs == 1000
green_to_blue_start == 10
blue_to_green_start == 4000
NsPerUs == 1000

Min(a, b) == IF a <= b THEN a ELSE b
Max(a, b) == IF a >= b THEN a ELSE b

\* Argument sets.  Negative row counts and horizons are arguments a caller
\* can pass; the code does not validate them.
RowCounts == (-1 .. MaxRows) \cup {DefaultTotalRows}
SimInputs ==
    {<<h, r>> : h \in (-1 .. MaxShortHorizon) \cup {MaxHorizon}, r \in -1 .. MaxRows}
        \cup {<<MaxBankHorizon, DefaultTotalRows>>}

(***************************************************************************)
(* class RowState                                                          *)
(***************************************************************************)
RowState == [color |-> 0, usable_time |-> 0]

\* The accessors.  A setter changes its one field and leaves the other; it
\* takes any int.  calculate_row_states_over_time calls none of the four.
get_color(row) == row.color

set_color(row, color) == [row EXCEPT !.color = color]

get_usable_time(row) == row.usable_time

set_usable_time(row, usable_time) == [row EXCEPT !.usable_time = usable_time]

\* A write that sets the usable time and leaves the colour.
write_row_no_flip(row, current_time_ns) ==
    [color |-> row.color, usable_time |-> current_time_ns + SettlingNs]

write_row_late(row, current_time_ns) ==
    [color |-> 1 - row.color, usable_time |-> current_time_ns + SettlingNs + 1]

write_row(row, current_time_ns) ==
    [color |-> 1 - row.color, usable_time |-> current_time_ns + SettlingNs]

(***************************************************************************)
(* calculate_row_states_over_time                                          *)
(***************************************************************************)
new_row_states(n) == [i \in 1 .. Max(n, 0) |-> RowState]

initial_sample_empty(n) == <<0, 0, 0, n>>

initial_sample(n) == <<0, n, 0, 0>>

sweep_trigger(t) == t = green_to_blue_start \/ t = blue_to_green_start

\* The counting scan of one tick, lines 126-143: each row is unsettled if its
\* usable_time is later than t, else settled green or settled blue by its
\* colour.  The result is (settled green, settled blue, unsettled).
count_rows_dropblue(rows, t) ==
    LET IsUnsettled(r) == r.usable_time > t
        IsGreen(r) == ~IsUnsettled(r) /\ r.color = 0
    IN  <<Len(SelectSeq(rows, IsGreen)), 0, Len(SelectSeq(rows, IsUnsettled))>>

\* The scan with a row whose usable_time equals t still counted unsettled.
count_rows_inclusive(rows, t) ==
    LET IsUnsettled(r) == r.usable_time >= t
        IsGreen(r) == ~IsUnsettled(r) /\ r.color = 0
        IsBlue(r) == ~IsUnsettled(r) /\ r.color # 0
    IN  <<Len(SelectSeq(rows, IsGreen)), Len(SelectSeq(rows, IsBlue)),
          Len(SelectSeq(rows, IsUnsettled))>>

count_rows(rows, t) ==
    LET IsUnsettled(r) == r.usable_time > t
        IsGreen(r) == ~IsUnsettled(r) /\ r.color = 0
        IsBlue(r) == ~IsUnsettled(r) /\ r.color # 0
    IN  <<Len(SelectSeq(rows, IsGreen)), Len(SelectSeq(rows, IsBlue)),
          Len(SelectSeq(rows, IsUnsettled))>>

\* list.append.  The lists are only ever appended to and read at the return,
\* so a state keeps their length and their last MaxKept entries: a run of up
\* to MaxKept samples is held whole, a longer one by its tail, and the list
\* itself is the sequence of the newest entries over the behaviour.
AppendKept(seq, s) ==
    LET a == Append(seq, s) IN IF Len(a) > MaxKept THEN Tail(a) ELSE a

next_time_skip(t) == t + 2

next_time(t) == t + 1

\* A trigger that fires on every tick from the first trigger tick on and is
\* honoured while a sweep is in progress.
sweep_starts_every_tick(in_progress, t) == t >= green_to_blue_start

\* Lines 108-112: a sweep starts in a trigger tick if none is in progress.
sweep_starts(in_progress, t) == (~in_progress) /\ sweep_trigger(t)

\* The write of a tick reaching the row after the current one as well.
write_current_and_next_row(rows, row_index, t) ==
    [i \in DOMAIN rows |->
        IF i = row_index + 1 \/ i = row_index + 2 THEN write_row(rows[i], t) ELSE rows[i]]

\* Line 116: row_states[current_row_index].write_row(time_ns); the list is
\* 0-based in the code and 1-based here.
write_current_row(rows, row_index, t) ==
    [rows EXCEPT ![row_index + 1] = write_row(@, t)]

\* The index stepping over a row.
advance_row_index_by_two(row_index) == row_index + 2

\* Line 117: current_row_index += 1.
advance_row_index(row_index) == row_index + 1

\* The master colour flipped on every tick of a sweep.
flip_master_color_sweeping(master, row_index, totalRows, in_progress) ==
    IF in_progress THEN 1 - master ELSE master

\* Lines 120-124: the master colour after the finish test of a tick.
flip_master_color(master, row_index, totalRows, in_progress) ==
    IF row_index >= totalRows /\ in_progress THEN 1 - master ELSE master

InitSim ==
    /\ pc = "start"
    /\ \E in \in SimInputs : usage_time_ns = in[1] /\ total_rows = in[2]
    /\ row_states = <<>>
    /\ master_color = 0
    /\ change_in_progress = FALSE
    /\ current_row_index = 0
    /\ time_ns = 0
    /\ n_samples = 0
    /\ samples = <<>>
    /\ result = <<>>

\* Lines 82-103: the lists, the row objects, the state machine variables and
\* the sample of time 0.
Setup ==
    /\ pc = "start"
    /\ row_states' = new_row_states(total_rows)
    /\ master_color' = 0
    /\ change_in_progress' = FALSE
    /\ current_row_index' = 0
    /\ time_ns' = 0
    /\ samples' = AppendKept(<<>>, initial_sample(total_rows))
    /\ n_samples' = 1
    /\ pc' = "loop"
    /\ UNCHANGED <<usage_time_ns, total_rows, result, call, ret>>

\* Lines 106-148: one iteration of the loop over range(1, usage_time_ns + 1).
Tick ==
    /\ pc = "loop"
    /\ time_ns < usage_time_ns
    /\ LET t == next_time(time_ns)
           started == sweep_starts(change_in_progress, t)
           cip1 == change_in_progress \/ started
           idx1 == IF started THEN 0 ELSE current_row_index
           doWrite == cip1 /\ idx1 < total_rows
           rows2 == IF doWrite
                    THEN write_current_row(row_states, idx1, t)
                    ELSE row_states
           idx2 == IF doWrite THEN advance_row_index(idx1) ELSE idx1
           finished == idx2 >= total_rows /\ cip1
           counts == count_rows(rows2, t)
       IN  /\ time_ns' = t
           /\ row_states' = rows2
           /\ current_row_index' = idx2
           /\ change_in_progress' = (cip1 /\ ~finished)
           /\ master_color' = flip_master_color(master_color, idx2, total_rows, cip1)
           /\ samples' = AppendKept(samples, <<t, counts[1], counts[2], counts[3]>>)
           /\ n_samples' = n_samples + 1
    /\ UNCHANGED <<pc, usage_time_ns, total_rows, result, call, ret>>

\* Line 150: the loop is exhausted and the zipped lists are returned.
Return ==
    /\ pc = "loop"
    /\ time_ns >= usage_time_ns
    /\ result' = samples
    /\ pc' = "done"
    /\ UNCHANGED <<usage_time_ns, total_rows, row_states, master_color,
                   change_in_progress, current_row_index, time_ns, n_samples,
                   samples, call, ret>>

(***************************************************************************)
(* Closed-form calculators.  A float result is kept as the exact quotient  *)
(* num/den of the two integers Python divides; `return 1.0` is 1/1.  A     *)
(* division by zero is the ZeroDivisionError Python raises.                *)
(***************************************************************************)
Float(n, d) == [kind |-> "float", num |-> n, den |-> d]
ZeroDivisionError == [kind |-> "ZeroDivisionError", num |-> 0, den |-> 0]

\* a / b on ints
TrueDiv(a, b) == IF b = 0 THEN ZeroDivisionError ELSE Float(a, b)

\* x == 1.0 and x == y on results (assertEqual compares with ==)
IsOne(x) == x.kind = "float" /\ x.num = x.den
FloatEq(x, y) == x.kind = "float" /\ y.kind = "float" /\ x.num * y.den = y.num * x.den

\* unittest's assertAlmostEqual(first, second, places=3): it passes when
\* first == second, and otherwise when round(abs(first - second), 3) == 0,
\* that is when the difference is below 1/2000.  The value is the set of
\* verdicts the call can have (TRUE: it passes).  On exact quotients the
\* verdict is one, except for a difference of exactly 1/2000: there Python
\* rounds the double it computed, which lies just below or just above the
\* tie according to the rounding of the operands (0.5005 against 0.5 passes,
\* 0.0015 against 0.001 fails), so both verdicts are kept.  A call whose
\* argument raised ZeroDivisionError never passes.
Abs(a) == IF a >= 0 THEN a ELSE -a

IsNumber(x) == x.kind \in {"float", "int"} /\ x.den # 0

assertAlmostEqual(first, second) ==
    IF ~(IsNumber(first) /\ IsNumber(second)) THEN {FALSE}
    ELSE LET diff_num == Abs(first.num * second.den - second.num * first.den)
             diff_den == Abs(first.den * second.den)
         IN  IF diff_num = 0 THEN {TRUE}
             ELSE IF diff_num <= (diff_den - 1) \div 2000 THEN {TRUE}
             ELSE IF diff_den % 2000 = 0 /\ diff_num = diff_den \div 2000 THEN BOOLEAN
             ELSE {FALSE}

\* src/src/row_performance_analyzer.py: the settling time is used as given.
usable_fraction_no_early_return(usage_time_us, totalRows, write_time_per_row_us, settling_time_us) ==
    IF write_time_per_row_us = 0 THEN ZeroDivisionError
    ELSE
    LET rows_written == Min(usage_time_us \div write_time_per_row_us, totalRows)
        settling_cutoff_time == usage_time_us - settling_time_us
        rows_written_before_cutoff ==
            Min(rows_written, settling_cutoff_time \div write_time_per_row_us)
        rows_settling == IF settling_cutoff_time > 0
                         THEN rows_written - rows_written_before_cutoff
                         ELSE rows_written
        usable_rows == totalRows - rows_settling
    IN  TrueDiv(usable_rows, totalRows)

usable_fraction_cutoff_exclusive(usage_time_us, totalRows, write_time_per_row_us, settling_time_us) ==
    IF write_time_per_row_us = 0 THEN ZeroDivisionError
    ELSE
    LET rows_written == Min(usage_time_us \div write_time_per_row_us, totalRows)
        settling_cutoff_time == usage_time_us - settling_time_us
        rows_written_before_cutoff ==
            Min(rows_written, (settling_cutoff_time - 1) \div write_time_per_row_us)
        rows_settling == IF settling_cutoff_time > 0
                         THEN rows_written - rows_written_before_cutoff
                         ELSE rows_written
        usable_rows == totalRows - rows_settling
    IN  IF rows_written = 0 THEN Float(1, 1) ELSE TrueDiv(usable_rows, totalRows)

usable_fraction_no_clamp(usage_time_us, totalRows, write_time_per_row_us, settling_time_us) ==
    IF write_time_per_row_us = 0 THEN ZeroDivisionError
    ELSE
    LET rows_written == Min(usage_time_us \div write_time_per_row_us, totalRows)
        settling_cutoff_time == usage_time_us - settling_time_us
        rows_written_before_cutoff == settling_cutoff_time \div write_time_per_row_us
        rows_settling == IF settling_cutoff_time > 0
                         THEN rows_written - rows_written_before_cutoff
                         ELSE rows_written
        usable_rows == totalRows - rows_settling
    IN  IF rows_written = 0 THEN Float(1, 1) ELSE TrueDiv(usable_rows, totalRows)

calculate_usable_fraction(usage_time_us, totalRows, write_time_per_row_us, settling_time_us) ==
    IF write_time_per_row_us = 0 THEN ZeroDivisionError
    ELSE
    LET rows_written == Min(usage_time_us \div write_time_per_row_us, totalRows)
        settling_cutoff_time == usage_time_us - settling_time_us
        rows_written_before_cutoff ==
            Min(rows_written, settling_cutoff_time \div write_time_per_row_us)
        rows_settling == IF settling_cutoff_time > 0
                         THEN rows_written - rows_written_before_cutoff
                         ELSE rows_written
        usable_rows == totalRows - rows_settling
    IN  IF rows_written = 0 THEN Float(1, 1) ELSE TrueDiv(usable_rows, totalRows)

\* src/performance_graphs.py: the settling time is given in microseconds.
pg_usable_fraction_all_settling(usageTime, totalRows, write_time_per_row_ns, settling_time_us) ==
    IF write_time_per_row_ns = 0 THEN ZeroDivisionError
    ELSE
    LET settling_time_ns == settling_time_us * NsPerUs
        rows_written == Min(usageTime \div write_time_per_row_ns, totalRows)
        settling_cutoff_time == usageTime - settling_time_ns
        rows_written_after_cutoff ==
            Max(0, rows_written - (settling_cutoff_time \div write_time_per_row_ns))
        rows_settling == IF settling_cutoff_time > 0
                         THEN Min(rows_written_after_cutoff, rows_written)
                         ELSE rows_written
        usable_rows == totalRows - rows_settling
    IN  IF rows_written = 0 THEN Float(1, 1) ELSE TrueDiv(usable_rows, totalRows)

pg_calculate_usable_fraction(usageTime, totalRows, write_time_per_row_ns, settling_time_us) ==
    IF write_time_per_row_ns = 0 THEN ZeroDivisionError
    ELSE
    LET settling_time_ns == settling_time_us * NsPerUs
        rows_written == Min(usageTime \div write_time_per_row_ns, totalRows)
        settling_cutoff_time == usageTime - settling_time_ns
        rows_written_after_cutoff ==
            Max(0, rows_written - (settling_cutoff_time \div write_time_per_row_ns))
        rows_settling == IF settling_cutoff_time > 0
                         THEN Min(rows_written_after_cutoff, rows_written)
                         ELSE 0
        usable_rows == totalRows - rows_settling
    IN  IF rows_written = 0 THEN Float(1, 1) ELSE TrueDiv(usable_rows, totalRows)

\* src/performance_graphs.py, calculate_settled_rows_over_time: the settled
\* count of one loop iteration (lines 66-78).
settled_rows_lagging(t, totalRows, write_time_per_row_ns, settling_time_us) ==
    LET settling_time_ns == settling_time_us * NsPerUs
        rows_written == Min(t \div write_time_per_row_ns, totalRows)
        settled_cutoff_time == t - settling_time_ns
        rows_settled ==
            Max(0, Min(rows_written, (settled_cutoff_time \div write_time_per_row_ns) - 1))
    IN  IF settled_cutoff_time <= 0
        THEN totalRows
        ELSE totalRows - rows_written + rows_settled

settled_rows_at(t, totalRows, write_time_per_row_ns, settling_time_us) ==
    LET settling_time_ns == settling_time_us * NsPerUs
        rows_written == Min(t \div write_time_per_row_ns, totalRows)
        settled_cutoff_time == t - settling_time_ns
        rows_settled ==
            Max(0, Min(rows_written, settled_cutoff_time \div write_time_per_row_ns))
    IN  IF settled_cutoff_time <= 0
        THEN totalRows
        ELSE totalRows - rows_written + rows_settled

series_first_entry(totalRows) == <<0, totalRows>>

\* The whole time series, or the ZeroDivisionError of its first iteration.
calculate_settled_rows_over_time(usageTime, totalRows, write_time_per_row_ns, settling_time_us) ==
    IF write_time_per_row_ns = 0 /\ usageTime >= 1
    THEN [kind |-> "ZeroDivisionError", series |-> <<>>]
    ELSE [kind |-> "list",
          series |-> [k \in 1 .. (Max(usageTime, 0) + 1) |->
                         IF k = 1
                         THEN series_first_entry(totalRows)
                         ELSE <<k - 1,
                                settled_rows_at(k - 1, totalRows,
                                                write_time_per_row_ns, settling_time_us)>>]]

(***************************************************************************)
(* Pipeline analysis: the trapezoid width and the efficiencies printed by  *)
(* print_analysis.  An int result is IntResult(n).                        *)
(***************************************************************************)
IntResult(n) == [kind |-> "int", num |-> n, den |-> 1]

\* The flat top taken as N itself instead of N - total_rows.
trapezoid_width_flat_top_N(N, totalRows) ==
    IF N <= totalRows THEN 2 * totalRows ELSE 2 * totalRows + N

\* Lines 152-176.
calculate_trapezoid_width(N, totalRows) ==
    IF N <= totalRows
    THEN LET ramp_width == totalRows IN 2 * ramp_width
    ELSE LET ramp_width == totalRows
             flat_top_width == N - totalRows
         IN  2 * ramp_width + flat_top_width

\* Lines 332-336 (and 189-192): (N * 1024) / calculate_trapezoid_width(N),
\* the width taken with the default total_rows.
ComputationsPerInstance == 1024
efficiency(N) ==
    TrueDiv(N * ComputationsPerInstance, calculate_trapezoid_width(N, DefaultTotalRows))

\* The usage-instance counts print_analysis reports on, lines 332-339.
AnalysisN == {1024, 2048, 5000, 10000, 25000}
AnalysisWidthN == {1024, 25000}

\* Line 183 of generate_graph_1: N_values = np.arange(0, 25001, 250).
GraphStop == 25001
GraphStep == 250
N_values == [k \in 1 .. ((GraphStop - 1) \div GraphStep + 1) |-> (k - 1) * GraphStep]

\* Lines 186-194: the entry appended for one N, the int 0 for N = 0.
avg_per_clock(N) == IF N = 0 THEN IntResult(0) ELSE efficiency(N)

UsageTimes == 0 .. MaxUsageTime
WriteTimes == 0 .. MaxWriteTime
SettlingTimes == (-1 .. MaxSettling) \cup {SettlingNs}
SettlingTimesUs == 0 .. MaxSettlingUs
SeriesHorizons == (-1 .. MaxShortHorizon) \cup {MaxSeriesHorizon}

NoCall == [fn |-> "none", args |-> <<>>]
NoRet == [kind |-> "none", num |-> 0, den |-> 0]

CallUsableFraction ==
    /\ pc = "off"
    /\ call = NoCall
    /\ \E T \in UsageTimes, R \in RowCounts, W \in WriteTimes, S \in SettlingTimes :
          /\ call' = [fn |-> "calculate_usable_fraction", args |-> <<T, R, W, S>>]
          /\ ret' = calculate_usable_fraction(T, R, W, S)
    /\ UNCHANGED simVars

CallUsableFractionPG ==
    /\ pc = "off"
    /\ call = NoCall
    /\ \E T \in UsageTimes, R \in RowCounts, W \in WriteTimes, S \in SettlingTimesUs :
          /\ call' = [fn |-> "pg_calculate_usable_fraction", args |-> <<T, R, W, S>>]
          /\ ret' = pg_calculate_usable_fraction(T, R, W, S)
    /\ UNCHANGED simVars

CallSettledRows ==
    /\ pc = "off"
    /\ call = NoCall
    /\ \E T \in SeriesHorizons, R \in RowCounts, W \in WriteTimes, S \in SettlingTimesUs :
          /\ call' = [fn |-> "calculate_settled_rows_over_time", args |-> <<T, R, W, S>>]
          /\ ret' = calculate_settled_rows_over_time(T, R, W, S)
    /\ UNCHANGED simVars

TrapezoidNs == (-1 .. MaxInstances) \cup AnalysisN

CallTrapezoidWidth ==
    /\ pc = "off"
    /\ call = NoCall
    /\ \E N \in TrapezoidNs, R \in RowCounts :
          /\ call' = [fn |-> "calculate_trapezoid_width", args |-> <<N, R>>]
          /\ ret' = IntResult(calculate_trapezoid_width(N, R))
    /\ UNCHANGED simVars

\* Lines 331-339 of print_analysis: the efficiencies and widths it prints.
PrintAnalysis ==
    /\ pc = "off"
    /\ call = NoCall
    /\ call' = [fn |-> "print_analysis", args |-> <<>>]
    /\ ret' = [kind |-> "analysis",
               efficiency |-> [N \in AnalysisN |-> efficiency(N)],
               width |-> [N \in AnalysisWidthN |->
                             calculate_trapezoid_width(N, DefaultTotalRows)]]
    /\ UNCHANGED simVars

\* Lines 183-194 of generate_graph_1: the two lists it plots.
GenerateGraph1 ==
    /\ pc = "off"
    /\ call = NoCall
    /\ call' = [fn |-> "generate_graph_1", args |-> <<>>]
    /\ ret' = [kind |-> "graph",
               N_values |-> N_values,
               avg_computations_per_clock |->
                   [k \in DOMAIN N_values |-> avg_per_clock(N_values[k])]]
    /\ UNCHANGED simVars

\* Each behaviour of the closed-form machine makes one call (the functions
\* keep no state between calls); the simulation's variables stay as constructed.
InitCF ==
    /\ pc = "off"
    /\ usage_time_ns = 0
    /\ total_rows = 0
    /\ row_states = <<>>
    /\ master_color = 0
    /\ change_in_progress = FALSE
    /\ current_row_index = 0
    /\ time_ns = 0
    /\ n_samples = 0
    /\ samples = <<>>
    /\ result = <<>>
    /\ call = NoCall
    /\ ret = NoRet

NextCF ==
    \/ CallUsableFraction
    \/ CallUsableFractionPG
    \/ CallSettledRows
    \/ CallTrapezoidWidth
    \/ PrintAnalysis
    \/ GenerateGraph1

SpecCF == InitCF /\ [][NextCF]_vars

(***************************************************************************)
(* One RowState object under its public methods, called in any order by a  *)
(* user of the class.  The object is row_states[1]; call is the last method *)
(* called and ret what a getter returned.                                  *)
(***************************************************************************)
SetterArgs == -1 .. MaxSetterArg

InitRowState ==
    /\ pc = "object"
    /\ usage_time_ns = 0
    /\ total_rows = 0
    /\ row_states = <<RowState>>
    /\ master_color = 0
    /\ change_in_progress = FALSE
    /\ current_row_index = 0
    /\ time_ns = 0
    /\ n_samples = 0
    /\ samples = <<>>
    /\ result = <<>>
    /\ call = NoCall
    /\ ret = NoRet

rowFrame == <<pc, usage_time_ns, total_rows, master_color, change_in_progress,
              current_row_index, time_ns, n_samples, samples, result>>

CallGetColor ==
    /\ pc = "object"
    /\ call' = [fn |-> "get_color", args |-> <<>>]
    /\ ret' = IntResult(get_color(row_states[1]))
    /\ UNCHANGED <<row_states, rowFrame>>

CallSetColor ==
    /\ pc = "object"
    /\ \E color \in SetterArgs :
          /\ call' = [fn |-> "set_color", args |-> <<color>>]
          /\ row_states' = [row_states EXCEPT ![1] = set_color(@, color)]
    /\ ret' = NoRet
    /\ UNCHANGED rowFrame

CallGetUsableTime ==
    /\ pc = "object"
    /\ call' = [fn |-> "get_usable_time", args |-> <<>>]
    /\ ret' = IntResult(get_usable_time(row_states[1]))
    /\ UNCHANGED <<row_states, rowFrame>>

CallSetUsableTime ==
    /\ pc = "object"
    /\ \E usable_time \in SetterArgs :
          /\ call' = [fn |-> "set_usable_time", args |-> <<usable_time>>]
          /\ row_states' = [row_states EXCEPT ![1] = set_usable_time(@, usable_time)]
    /\ ret' = NoRet
    /\ UNCHANGED rowFrame

CallWriteRow ==
    /\ pc = "object"
    /\ \E current_time_ns \in SetterArgs :
          /\ call' = [fn |-> "write_row", args |-> <<current_time_ns>>]
          /\ row_states' = [row_states EXCEPT ![1] = write_row(@, current_time_ns)]
    /\ ret' = NoRet
    /\ UNCHANGED rowFrame

NextRowState ==
    \/ CallGetColor
    \/ CallSetColor
    \/ CallGetUsableTime
    \/ CallSetUsableTime
    \/ CallWriteRow

SpecRowState == InitRowState /\ [][NextRowState]_vars

Init == InitSim /\ call = NoCall /\ ret = NoRet

Next == Setup \/ Tick \/ Return

Spec == Init /\ [][Next]_vars

\* The simulation of a bank so large that its first sweep is still in
\* progress at the second trigger tick.
OverlapInputs == {<<MaxOverlapHorizon, MaxOverlapRows>>}

InitOverlap ==
    /\ pc = "start"
    /\ \E in \in OverlapInputs : usage_time_ns = in[1] /\ total_rows = in[2]
    /\ row_states = <<>>
    /\ master_color = 0
    /\ change_in_progress = FALSE
    /\ current_row_index = 0
    /\ time_ns = 0
    /\ n_samples = 0
    /\ samples = <<>>
    /\ result = <<>>
    /\ call = NoCall
    /\ ret = NoRet

SpecOverlap == InitOverlap /\ [][Next]_vars

\* Both machines: a behaviour is a run of the simulation or one closed-form call.
InitAll == Init \/ InitCF
NextAll == Next \/ NextCF
SpecAll == InitAll /\ [][NextAll]_vars

(***************************************************************************)
(* Properties.  Where a property speaks of a configuration, it is one the  *)
(* specification calls valid: total_rows >= 0, a write time >= 1, a usage  *)
(* time >= 0.                                                              *)
(***************************************************************************)
Last(seq) == seq[Len(seq)]
Settled(s) == s[2] + s[3]
Fn == call.fn
ArgT == call.args[1]
ArgR == call.args[2]
ArgW == call.args[3]
ArgS == call.args[4]
IsUF == Fn = "calculate_usable_fraction"
IsPG == Fn = "pg_calculate_usable_fraction"
IsSeries == Fn = "calculate_settled_rows_over_time"
IsWidth == Fn = "calculate_trapezoid_width"
IsAnalysis == Fn = "print_analysis"
IsGraph == Fn = "generate_graph_1"
ArgN == call.args[1]

\* C1: conservation.  Every sample the simulation emits, the one of time 0
\* included, has settled green + settled blue + unsettled = total_rows: the
\* newest sample in every state, and every kept sample of the returned list.
C1_Conservation ==
    /\ (pc \in {"loop", "done"} /\ total_rows >= 0) =>
          LET s == Last(samples) IN s[2] + s[3] + s[4] = total_rows
    /\ (pc = "done" /\ total_rows >= 0) =>
          \A k \in DOMAIN result : result[k][2] + result[k][3] + result[k][4] = total_rows

C1_Witness ==
    /\ pc = "loop"
    /\ total_rows = 1024
    /\ LET s == Last(samples) IN s[1] = 1020 /\ s[2] > 0 /\ s[3] > 0 /\ s[4] > 0

\* C2: the first entry of a time series is time 0 with every row settled in
\* the initial colour: (0, total_rows, 0, 0) for the simulation, the only
\* sample before the first loop iteration and still first in the returned
\* list (where the list is held whole), and (0, total_rows) for
\* calculate_settled_rows_over_time.
C2_InitialSample ==
    /\ (pc = "loop" /\ time_ns = 0) =>
          n_samples = 1 /\ samples = << <<0, total_rows, 0, 0>> >>
    /\ (pc = "loop" /\ n_samples <= MaxKept) => samples[1] = <<0, total_rows, 0, 0>>
    /\ (pc = "done" /\ n_samples <= MaxKept) =>
          Len(result) = n_samples /\ result[1] = <<0, total_rows, 0, 0>>
    /\ (IsSeries /\ ret.kind = "list") => ret.series[1] = <<0, ArgR>>

C2_Witness ==
    /\ pc = "done"
    /\ total_rows = 3
    /\ usage_time_ns = 2
    /\ result = << <<0, 3, 0, 0>>, <<1, 3, 0, 0>>, <<2, 3, 0, 0>> >>

\* C3: with 1024 rows, the closed form usableFraction(1024) for write time 1
\* and settling 1000 equals (settled green + settled blue) / total_rows of
\* the simulation's sample of tick 1024: the two are the same value, and so
\* pass the comparison to three places that the tests make.
C3_AgreementAt1024 ==
    (pc = "loop" /\ total_rows = 1024 /\ time_ns = 1024) =>
        LET s == Last(samples)
        IN  /\ s[1] = 1024
            /\ FloatEq(calculate_usable_fraction(1024, 1024, 1, 1000),
                       TrueDiv(Settled(s), total_rows))
            /\ assertAlmostEqual(calculate_usable_fraction(1024, 1024, 1, 1000),
                                 TrueDiv(Settled(s), total_rows)) = {TRUE}

C3_Witness ==
    /\ pc = "loop"
    /\ total_rows = 1024
    /\ time_ns = 1024
    /\ Last(samples) = <<1024, 9, 15, 1000>>
    /\ calculate_usable_fraction(1024, 1024, 1, 1000) = Float(24, 1024)

\* C4: at write time 1, during the first sweep's run (before the second
\* trigger), the closed-form usable row count total_rows * usableFraction(T)
\* equals settled green + settled blue of the sample of every tick T.
C4_AgreementEveryTick ==
    (pc = "loop" /\ total_rows >= 0 /\ time_ns < blue_to_green_start) =>
        LET s == Last(samples)
            f == calculate_usable_fraction(s[1], total_rows, 1, SettlingNs)
        IN  f.kind = "float" /\ total_rows * f.num = Settled(s) * f.den

\* C5: for a horizon H >= 0 the returned list has H + 1 samples and its
\* k-th sample (from 0) has time k: every loop iteration appends one sample,
\* of that iteration's time, and the entries kept of the returned list are
\* the list's last ones, each with its index as its time.
C5_SampleTimes ==
    /\ pc = "loop" => n_samples = time_ns + 1 /\ Last(samples)[1] = n_samples - 1
    /\ (pc = "done" /\ usage_time_ns >= 0) =>
          /\ n_samples = usage_time_ns + 1
          /\ Len(result) = Min(n_samples, MaxKept)
          /\ \A k \in 1 .. Len(result) :
                result[k][1] = (n_samples - Len(result)) + (k - 1)

C5_Witness ==
    /\ pc = "done"
    /\ usage_time_ns = 2
    /\ n_samples = 3
    /\ result[1][1] = 0 /\ result[2][1] = 1 /\ result[3][1] = 2

\* C6: performance_graphs.calculate_usable_fraction returns 1.0 for every
\* usage time T with 0 <= T <= settling_time_us * 1000 (write time >= 1).
C6_OneUntilSettlingTime ==
    (IsPG /\ ArgW >= 1 /\ ArgT >= 0 /\ ArgT <= ArgS * NsPerUs) => IsOne(ret)

C6_Witness ==
    /\ IsPG
    /\ call.args = <<1000, 1024, 1, 1>>
    /\ ret = Float(1024, 1024)

\* C7: once every row has been written and the settling cutoff is positive
\* (T >= total_rows * W and T > settling), the usable row count is
\* min(total_rows, floor((T - settling) / W)), in both copies of
\* calculate_usable_fraction; at T = 1024 with 1024 rows, write time 1 and a
\* settling time of 1000 ns it is 24 of 1024.
C7_UsableAfterSweep ==
    /\ (IsUF /\ ArgW >= 1 /\ ArgR >= 0 /\ ArgT >= ArgR * ArgW /\ ArgT > ArgS) =>
          /\ ret.kind = "float"
          /\ ArgR * ret.num = Min(ArgR, (ArgT - ArgS) \div ArgW) * ret.den
    /\ (IsPG /\ ArgW >= 1 /\ ArgR >= 0 /\ ArgT >= ArgR * ArgW /\ ArgT > ArgS * NsPerUs) =>
          /\ ret.kind = "float"
          /\ ArgR * ret.num = Min(ArgR, (ArgT - ArgS * NsPerUs) \div ArgW) * ret.den
    /\ (IsUF /\ call.args = <<1024, 1024, 1, 1000>>) => ret = Float(24, 1024)
    /\ (IsPG /\ call.args = <<1024, 1024, 1, 1>>) => ret = Float(24, 1024)

C7_Witness ==
    /\ IsUF
    /\ call.args = <<1024, 1024, 1, 1000>>
    /\ ret = Float(24, 1024)

\* C8: for every T >= total_rows * W + settling time all rows are settled:
\* both copies of calculate_usable_fraction return 1.0, and the entry of time
\* T in calculate_settled_rows_over_time's series is (T, total_rows).
C8_AllSettled ==
    /\ (IsUF /\ ArgW >= 1 /\ ArgR >= 0 /\ ArgS >= 0 /\ ArgT >= ArgR * ArgW + ArgS) =>
          IsOne(ret)
    /\ (IsPG /\ ArgW >= 1 /\ ArgR >= 0 /\ ArgT >= ArgR * ArgW + ArgS * NsPerUs) =>
          IsOne(ret)
    /\ (IsSeries /\ ArgW >= 1 /\ ArgR >= 0 /\ ret.kind = "list") =>
          \A k \in DOMAIN ret.series :
              (k - 1 >= ArgR * ArgW + ArgS * NsPerUs) => ret.series[k] = <<k - 1, ArgR>>

C8_Witness ==
    /\ IsSeries
    /\ ArgR = 1024 /\ ArgW = 1 /\ ArgS = 1
    /\ ret.kind = "list"
    /\ Len(ret.series) > 2024
    /\ ret.series[2025] = <<2024, 1024>>
    /\ ret.series[2024] = <<2023, 1023>>

\* C9: whenever no row has been written by T, min(floor(T / W), total_rows)
\* = 0, calculate_usable_fraction takes its early return of 1.0 and does not
\* reach the division by total_rows (which would fail for total_rows = 0).
C9_NothingWritten ==
    ((IsUF \/ IsPG) /\ ArgW >= 1 /\ Min(ArgT \div ArgW, ArgR) = 0) => ret = Float(1, 1)

C9_Witness ==
    /\ IsUF
    /\ call.args = <<1000, 0, 1, 1>>
    /\ ret = Float(1, 1)

\* C10: with a settling duration of 0, calculate_usable_fraction returns
\* 1.0 for every usage time, row count and write time of a valid
\* configuration, and raises no ZeroDivisionError.
C10_ZeroSettling ==
    (IsUF /\ ArgW >= 1 /\ ArgR >= 0 /\ ArgT >= 0 /\ ArgS = 0) => IsOne(ret)

C10_Witness ==
    /\ IsUF
    /\ call.args = <<1024, 1024, 1, 0>>
    /\ ret = Float(1024, 1024)

\* C11: for every usage time T >= 0, total_rows >= 1, write time W >= 1 and
\* settling time >= 0, both copies of calculate_usable_fraction return a
\* fraction between 0 and 1: the number of settling rows (denominator minus
\* numerator) is at least 0 and at most the number of rows written, which is
\* at most total_rows.
C11_FractionInUnitInterval ==
    ((IsUF \/ IsPG) /\ ArgT >= 0 /\ ArgR >= 1 /\ ArgW >= 1 /\ ArgS >= 0) =>
        /\ ret.kind = "float"
        /\ ret.den >= 1
        /\ 0 <= ret.num /\ ret.num <= ret.den
        /\ ret.den - ret.num <= Min(ArgT \div ArgW, ArgR)
        /\ Min(ArgT \div ArgW, ArgR) <= ArgR

C11_Witness ==
    /\ IsUF
    /\ call.args = <<2, 3, 1, 1>>
    /\ ret = Float(2, 3)

\* C12: for every N >= 0 and total_rows >= 0, calculate_trapezoid_width
\* returns 2 * total_rows when N <= total_rows and total_rows + N (that is
\* 2 * total_rows + (N - total_rows)) otherwise; with 1024 rows it is 2048 for
\* N = 1024, 3072 for N = 2048 and 26024 for N = 25000.
C12_WidthFormula ==
    (IsWidth /\ ArgN >= 0 /\ ArgR >= 0) =>
        /\ ret.kind = "int"
        /\ (ArgN <= ArgR) => (ret.num = ArgR + ArgR)
        /\ (ArgN > ArgR) => (ret.num = ArgR + ArgN)

C12_TrapezoidWidth ==
    /\ C12_WidthFormula
    /\ (IsWidth /\ call.args = <<1024, 1024>>) => ret.num = 2048
    /\ (IsWidth /\ call.args = <<2048, 1024>>) => ret.num = 3072
    /\ (IsWidth /\ call.args = <<25000, 1024>>) => ret.num = 26024

\* C12 as first stated: the same, with the width for N = 25000 and 1024 rows
\* given as 25024.
C12_TrapezoidWidth25024 ==
    /\ C12_WidthFormula
    /\ (IsWidth /\ call.args = <<1024, 1024>>) => ret.num = 2048
    /\ (IsWidth /\ call.args = <<2048, 1024>>) => ret.num = 3072
    /\ (IsWidth /\ call.args = <<25000, 1024>>) => ret.num = 25024

C12_Witness ==
    /\ IsWidth
    /\ call.args = <<25000, 1024>>
    /\ ret = IntResult(26024)

\* C13: with 1024 rows the efficiency N * 1024 / trapezoid width printed for
\* N = 25000 is greater than the one printed for N = 1024 and lies within 5%
\* of 1024.  The two quotients are compared by cross-multiplication, their
\* numerators' common factor 1024 cancelled first.
C13_EfficiencyApproaches1024 ==
    IsAnalysis =>
        LET hi == ret.efficiency[25000]
            lo == ret.efficiency[1024]
        IN  /\ hi.kind = "float" /\ lo.kind = "float"
            /\ hi.den > 0 /\ lo.den > 0
            /\ hi.num % ComputationsPerInstance = 0
            /\ lo.num % ComputationsPerInstance = 0
            /\ (hi.num \div ComputationsPerInstance) * lo.den
                  > (lo.num \div ComputationsPerInstance) * hi.den
            /\ 20 * (1024 * hi.den - hi.num) <= 1024 * hi.den
            /\ 20 * (hi.num - 1024 * hi.den) <= 1024 * hi.den

C13_Witness ==
    /\ IsAnalysis
    /\ ret.efficiency[1024] = Float(1024 * 1024, 2048)
    /\ ret.efficiency[25000] = Float(25000 * 1024, 26024)

\* C14: the master colour flips exactly once per completed sweep.  A tick
\* flips it (0 to 1 or 1 to 0) exactly when the controller was sweeping in
\* that tick (already, or triggered by it) and is idle after it; a tick that
\* leaves the sweep in progress, a tick of an idle controller, and every
\* other step leave it unchanged.  So after t ticks the colour is the parity
\* of the number of sweeps completed by t: the sweep triggered at tick c
\* completes at tick c + max(total_rows - 1, 0).
SweepEnd(c) == c + Max(total_rows - 1, 0)
SweepsCompleted(t) ==
    Cardinality({c \in {green_to_blue_start, blue_to_green_start} : t >= SweepEnd(c)})

C14_FlipStep ==
    /\ IF pc = "loop" /\ time_ns' = time_ns + 1
             /\ (change_in_progress \/ sweep_trigger(time_ns'))
             /\ ~change_in_progress'
       THEN master_color' = 1 - master_color
       ELSE master_color' = master_color
    /\ (pc' \in {"loop", "done"}) => master_color' = SweepsCompleted(time_ns') % 2

C14_FlipOncePerSweep == [][C14_FlipStep]_vars

C14_Witness ==
    /\ pc = "loop"
    /\ total_rows = 3
    /\ time_ns = green_to_blue_start + 2
    /\ ~change_in_progress
    /\ current_row_index = 3
    /\ master_color = 1

\* C15: with one row written per tick, the unsettled count is above 0 in
\* exactly the ticks c .. c + total_rows + settling - 2 after a sweep
\* triggered at tick c (0 before the sweep, 0 again afterwards): a span of
\* total_rows + settling - 1 ticks, for a bank of at least one row whose
\* sweep and settling end before the next trigger.
Unsettled(s) == s[4]
LastTrigger(t) == IF t >= blue_to_green_start THEN blue_to_green_start ELSE green_to_blue_start
SweepSettlesInTime ==
    /\ total_rows >= 1
    /\ SweepEnd(green_to_blue_start) + SettlingNs < blue_to_green_start

C15_RampWidth ==
    (pc \in {"loop", "done"} /\ SweepSettlesInTime) =>
        LET c == LastTrigger(time_ns)
        IN  (Unsettled(Last(samples)) > 0) <=>
                (c <= time_ns /\ time_ns <= c + total_rows + SettlingNs - 2)

\* C15 as first stated: the span of ticks with unsettled > 0 is 2 * settling
\* ticks wide, c .. c + 2 * settling - 1.
C15_RampWidthTwiceSettling ==
    (pc \in {"loop", "done"} /\ SweepSettlesInTime) =>
        LET c == LastTrigger(time_ns)
        IN  (Unsettled(Last(samples)) > 0) <=>
                (c <= time_ns /\ time_ns <= c + 2 * SettlingNs - 1)

C15_Witness ==
    /\ pc = "loop"
    /\ total_rows = 3
    /\ time_ns = green_to_blue_start + 3 + SettlingNs - 2
    /\ Last(samples) = <<time_ns, 0, 2, 1>>

\* C16: in the series of calculate_settled_rows_over_time, an entry of a time
\* t >= 1 during writing (at least one row written, t <= total_rows * W) whose
\* settling cutoff t - settling_ns is <= 0 reports 0 settled rows; so does
\* the entry of t = 1000 for 1024 rows, write time 1 ns, settling 1 us.
C16_ZeroSettledDuringWriting ==
    (IsSeries /\ ret.kind = "list" /\ ArgW >= 1 /\ ArgR >= 1) =>
        /\ \A k \in DOMAIN ret.series :
              LET t == k - 1
              IN  (/\ t >= 1
                   /\ t \div ArgW >= 1
                   /\ t <= ArgR * ArgW
                   /\ t - ArgS * NsPerUs <= 0) => ret.series[k][2] = 0
        /\ (call.args = <<MaxSeriesHorizon, 1024, 1, 1>>) => ret.series[1001] = <<1000, 0>>

\* C17: a simulation called with a negative usage time is rejected before any
\* step: it appends no sample (not even the one of time 0), enters no loop
\* and returns no list.
C17_NegativeHorizonRejected ==
    (usage_time_ns < 0) => (n_samples = 0 /\ pc \notin {"loop", "done"})

\* C18: a simulation with total_rows <= 0 runs to its return, and each of its
\* samples, the one of time 0 and those of the trigger ticks included, is
\* (t, 0, 0, 0).
C18_NoRowsAllZero ==
    (total_rows <= 0 /\ pc \in {"loop", "done"}) =>
        /\ Last(samples) = <<time_ns, 0, 0, 0>>
        /\ (pc = "done") => (result = samples)

\* C19: calculate_usable_fraction called with a negative total_rows or a
\* negative settling time is rejected: it returns no fraction.
C19_NegativeArgsRejected ==
    (IsUF /\ (ArgR < 0 \/ ArgS < 0)) => ret.kind # "float"

\* C21: a sweep triggered at tick c writes row i (0-based) at tick c + i, the
\* first row in the trigger tick itself, each row once and in index order,
\* and the controller is idle again at the end of the tick c + total_rows - 1
\* that writes the last row: the sweep takes total_rows ticks.  Stated on the
\* state after each tick t, for a bank of at least one row whose first sweep
\* ends before the second trigger: rows below min(t - c + 1, total_rows)
\* carry the write of this sweep (usable_time c + i + settling), the others
\* still carry the previous sweep's write or none.
InFirstSweepEra == time_ns < blue_to_green_start
NoOverlap == total_rows >= 1 /\ SweepEnd(green_to_blue_start) < blue_to_green_start
RowsWrittenBy(t) == IF t < green_to_blue_start THEN 0 ELSE Min(t - LastTrigger(t) + 1, total_rows)
RowOfSweep(c, i) ==
    [color |-> IF c = green_to_blue_start THEN 1 ELSE 0,
     usable_time |-> c + (i - 1) + SettlingNs]
RowBeforeSweep(c, i) ==
    IF c = green_to_blue_start THEN RowState ELSE RowOfSweep(green_to_blue_start, i)

C21_OneRowPerTick ==
    (pc \in {"loop", "done"} /\ NoOverlap) =>
        LET c == LastTrigger(time_ns)
            n == RowsWrittenBy(time_ns)
        IN  /\ Len(row_states) = total_rows
            /\ time_ns < green_to_blue_start =>
                  (current_row_index = 0 /\ ~change_in_progress)
            /\ time_ns >= green_to_blue_start =>
                  (/\ current_row_index = n
                   /\ change_in_progress <=> (time_ns - c + 1 < total_rows))
            /\ \A i \in 1 .. total_rows :
                  row_states[i] = IF i <= n THEN RowOfSweep(c, i) ELSE RowBeforeSweep(c, i)

C21_Witness ==
    /\ pc = "loop"
    /\ total_rows = 3
    /\ time_ns = green_to_blue_start + 2
    /\ ~change_in_progress
    /\ row_states = <<[color |-> 1, usable_time |-> 1010],
                      [color |-> 1, usable_time |-> 1011],
                      [color |-> 1, usable_time |-> 1012]>>

\* C22: a trigger tick that falls inside a sweep in progress is ignored.  In
\* a bank whose first sweep (triggered at tick 10) is still running at tick
\* 4000, after every tick t the row index is min(t - 9, total_rows) (never
\* reset), the rows below it carry exactly the one write of tick 10 + i and
\* the others none, the controller is sweeping exactly while t - 9 <
\* total_rows and idle ever after, and the master colour has flipped once.
SweepInFlightAtSecondTrigger ==
    total_rows >= 1 /\ SweepEnd(green_to_blue_start) >= blue_to_green_start

C22_TriggerIgnoredWhileSweeping ==
    (pc \in {"loop", "done"} /\ SweepInFlightAtSecondTrigger) =>
        LET c == green_to_blue_start
            n == IF time_ns < c THEN 0 ELSE Min(time_ns - c + 1, total_rows)
        IN  /\ current_row_index = n
            /\ change_in_progress <=> (time_ns >= c /\ time_ns - c + 1 < total_rows)
            /\ row_states =
                  [i \in 1 .. total_rows |-> IF i <= n THEN RowOfSweep(c, i) ELSE RowState]
            /\ master_color = IF time_ns >= SweepEnd(c) THEN 1 ELSE 0

C22_Witness ==
    /\ pc = "loop"
    /\ SweepInFlightAtSecondTrigger
    /\ time_ns = blue_to_green_start
    /\ change_in_progress
    /\ current_row_index = blue_to_green_start - green_to_blue_start + 1

\* C23: a row changes only by a write, which flips its colour and sets its
\* usable_time to the tick of the write plus the settling time, both in the
\* same step; no step changes one of the two alone.  So in every state a row
\* never written is (green, 0), and a row written k times, the last time at
\* tick w, has colour k mod 2 and usable_time w + settling.  The writes of
\* row i (0-based) are those of the schedule: one at tick c + i for each
\* trigger c, in a bank whose first sweep ends before the second trigger.
Triggers == {green_to_blue_start, blue_to_green_start}
WritesOf(i, t) == {c + (i - 1) : c \in {d \in Triggers : d + (i - 1) <= t}}
SetMax(S) == CHOOSE m \in S : \A x \in S : x <= m
RowAfterWrites(W) ==
    IF W = {} THEN RowState
    ELSE [color |-> Cardinality(W) % 2, usable_time |-> SetMax(W) + SettlingNs]

C23_RowStep ==
    /\ \A i \in DOMAIN row_states \cap DOMAIN row_states' :
          \/ row_states'[i] = row_states[i]
          \/ /\ row_states'[i].color = 1 - row_states[i].color
             /\ row_states'[i].usable_time = time_ns' + SettlingNs
    /\ (pc' \in {"loop", "done"} /\ NoOverlap) =>
          \A i \in DOMAIN row_states' :
              row_states'[i] = RowAfterWrites(WritesOf(i, time_ns'))

C23_WriteSetsBoth == [][C23_RowStep]_vars

C23_Witness ==
    /\ pc = "loop"
    /\ total_rows = 1
    /\ time_ns = blue_to_green_start
    /\ row_states = <<[color |-> 0, usable_time |-> blue_to_green_start + SettlingNs]>>

\* C24: the sample of tick t counts a row unsettled iff its usable_time is
\* greater than t, and otherwise settled green or settled blue by its colour;
\* a row whose usable_time equals t is settled.  A row written at tick w is
\* therefore unsettled in exactly the samples of ticks w .. w + settling - 1,
\* the sample of its own write tick included.
UnsettledAt(w, t) == w <= t /\ t <= w + SettlingNs - 1

C24_Classification ==
    (pc \in {"loop", "done"} /\ total_rows >= 0) =>
        LET s == Last(samples)
            idx == DOMAIN row_states
        IN  /\ s[4] = Cardinality({i \in idx : row_states[i].usable_time > time_ns})
            /\ s[2] = Cardinality({i \in idx : /\ row_states[i].usable_time <= time_ns
                                               /\ row_states[i].color = 0})
            /\ s[3] = Cardinality({i \in idx : /\ row_states[i].usable_time <= time_ns
                                               /\ row_states[i].color = 1})
            /\ NoOverlap =>
                  s[4] = Cardinality({i \in idx :
                            \E w \in WritesOf(i, time_ns) : UnsettledAt(w, time_ns)})

C24_Witness ==
    /\ pc = "loop"
    /\ total_rows = 1
    /\ time_ns = green_to_blue_start + SettlingNs
    /\ row_states = <<[color |-> 1, usable_time |-> time_ns]>>
    /\ Last(samples) = <<time_ns, 0, 1, 0>>

\* C25: in calculate_usable_fraction (both copies), when at least one row has
\* been written and the settling cutoff T - settling is <= 0, every written
\* row is still settling: the result is (total_rows - rows_written) /
\* total_rows with rows_written = min(floor(T / W), total_rows).
C25_AllWrittenSettling ==
    LET rows_written == Min(ArgT \div ArgW, ArgR)
        cutoff == IF IsUF THEN ArgT - ArgS ELSE ArgT - ArgS * NsPerUs
    IN  ((IsUF \/ IsPG) /\ ArgT >= 0 /\ ArgR >= 1 /\ ArgW >= 1 /\ ArgS >= 0
            /\ rows_written > 0 /\ cutoff <= 0) =>
            /\ ret.kind = "float"
            /\ ret.num * ArgR = (ArgR - rows_written) * ret.den

\* C26: for a bank of at least one row, at the end of every tick the row
\* index is an integer in [0, total_rows), whether the controller is idle or
\* sweeping.
C26_IndexInRange ==
    (pc \in {"loop", "done"} /\ total_rows >= 1) =>
        (0 <= current_row_index /\ current_row_index < total_rows)

\* C27: a tick changes at most one row.  In a tick of a sweep only the row
\* at the row index changes (the index being 0 when the tick starts the
\* sweep); in a tick of an idle controller that is not a trigger tick no row
\* changes, nor the row index, the in-progress flag or the master colour;
\* the counting scan changes nothing: the rows after the tick are the rows
\* as written, and the return changes no row either.
ChangedRows == {i \in DOMAIN row_states \cap DOMAIN row_states' : row_states'[i] # row_states[i]}

C27_TickFrame ==
    /\ (pc = "loop" /\ time_ns' = time_ns + 1) =>
          LET sweeping == change_in_progress \/ sweep_trigger(time_ns')
              at == IF change_in_progress THEN current_row_index ELSE 0
          IN  /\ Len(row_states') = Len(row_states)
              /\ Cardinality(ChangedRows) <= 1
              /\ sweeping => /\ ChangedRows \subseteq {at + 1}
                             /\ \A i \in ChangedRows : row_states'[i] = write_row(row_states[i], time_ns')
              /\ ~sweeping => /\ row_states' = row_states
                              /\ current_row_index' = current_row_index
                              /\ change_in_progress' = change_in_progress
                              /\ master_color' = master_color
    /\ (pc = "loop" /\ pc' = "done") => row_states' = row_states

C27_OneRowPerTickFrame == [][C27_TickFrame]_vars

C27_Witness ==
    /\ pc = "loop"
    /\ total_rows = 3
    /\ time_ns = green_to_blue_start + 1
    /\ row_states = <<[color |-> 1, usable_time |-> 1010],
                      [color |-> 1, usable_time |-> 1011],
                      [color |-> 0, usable_time |-> 0]>>

\* C28: at the end of every tick that leaves the controller idle, every
\* row's colour is the master colour; at the end of a tick that leaves a
\* sweep in progress, the rows below the row index (already written in this
\* sweep) hold the opposite colour and the rows from the row index on hold
\* the master colour.
C28_ColoursFollowMaster ==
    (pc \in {"loop", "done"}) =>
        \A i \in DOMAIN row_states :
            row_states[i].color =
                IF change_in_progress /\ i <= current_row_index
                THEN 1 - master_color
                ELSE master_color

C28_Witness ==
    /\ pc = "loop"
    /\ total_rows = 3
    /\ change_in_progress
    /\ current_row_index = 2
    /\ master_color = 0
    /\ row_states[1].color = 1 /\ row_states[2].color = 1 /\ row_states[3].color = 0

\* C29: no row is written while it is unsettled: in every step that writes
\* a row at tick t, the row's usable_time before the write is at most t.
C29_WriteStep ==
    \A i \in ChangedRows : row_states[i].usable_time <= time_ns'

C29_NoWriteWhileUnsettled == [][C29_WriteStep]_vars

C29_Witness ==
    /\ pc = "loop"
    /\ total_rows = 2
    /\ time_ns = blue_to_green_start + 1
    /\ row_states = <<[color |-> 0, usable_time |-> blue_to_green_start + SettlingNs],
                      [color |-> 0, usable_time |-> blue_to_green_start + 1 + SettlingNs]>>

\* C30: for the sweep started at trigger tick s, with one row written per
\* tick and a settling time S, in a bank whose sweeps have settled before the
\* next trigger, the unsettled count of the sample of tick t is the number of
\* rows i in 0 .. total_rows - 1 with t - S < s + i <= t; it is never more
\* than min(total_rows, S); it is above 0 from tick s up to tick
\* s + total_rows + S - 2, first back at 0 at tick s + total_rows - 1 + S, and
\* 0 from then until the next sweep starts (as it is before the first one).
C30_UnsettledCount ==
    (pc \in {"loop", "done"} /\ SweepSettlesInTime) =>
        LET t == time_ns
            s == LastTrigger(t)
            u == Unsettled(Last(samples))
            zeroAt == s + total_rows - 1 + SettlingNs
        IN  /\ t < green_to_blue_start => u = 0
            /\ t >= green_to_blue_start =>
                  /\ u = Cardinality({i \in 0 .. total_rows - 1 :
                                         t - SettlingNs < s + i /\ s + i <= t})
                  /\ u <= Min(total_rows, SettlingNs)
                  /\ t < zeroAt => u > 0
                  /\ t >= zeroAt => u = 0

C30_Witness ==
    /\ pc = "loop"
    /\ total_rows = DefaultTotalRows
    /\ time_ns = green_to_blue_start + SettlingNs - 1
    /\ Last(samples) = <<time_ns, DefaultTotalRows - SettlingNs, 0, SettlingNs>>

\* C31: the two copies of calculate_usable_fraction return the same value
\* for every T >= 0, total_rows >= 1 and write time >= 1 when given the same
\* settling duration: the result of performance_graphs' copy for a settling
\* time of S microseconds equals the result of row_performance_analyzer's
\* copy for a settling time of S * 1000.
C31_CopiesAgree ==
    (IsPG /\ ArgT >= 0 /\ ArgR >= 1 /\ ArgW >= 1 /\ ArgS >= 0) =>
        FloatEq(ret, calculate_usable_fraction(ArgT, ArgR, ArgW, ArgS * NsPerUs))

\* C32: for a fixed total_rows >= 1 the efficiency N * total_rows /
\* calculate_trapezoid_width(N, total_rows) does not decrease from N to N + 1
\* for N >= 1, is strictly less than total_rows for every N >= 1, and is
\* total_rows / 2 at N = total_rows.  So are the values generate_graph_1
\* plots for 1024 rows (non-decreasing along N_values, each below 1024), and
\* the efficiency print_analysis gives for N = 1024 is 512.  Quotients are
\* compared by cross-multiplication, the common factor cancelled first.
LeqFloat1024(a, b) ==
    /\ a.kind = "float" /\ b.kind = "float" /\ a.den > 0 /\ b.den > 0
    /\ a.num % ComputationsPerInstance = 0 /\ b.num % ComputationsPerInstance = 0
    /\ (a.num \div ComputationsPerInstance) * b.den
          <= (b.num \div ComputationsPerInstance) * a.den

C32_EfficiencyMonotone ==
    /\ (IsWidth /\ ArgN >= 1 /\ ArgR >= 1) =>
          /\ ret.kind = "int" /\ ret.num > 0
          /\ ArgN * calculate_trapezoid_width(ArgN + 1, ArgR) <= (ArgN + 1) * ret.num
          /\ ArgN * ArgR < ArgR * ret.num
          /\ (ArgN = ArgR) => (2 * (ArgN * ArgR) = ArgR * ret.num)
    /\ IsGraph =>
          LET avg == ret.avg_computations_per_clock
          IN  /\ Len(avg) = Len(ret.N_values)
              /\ \A k \in 2 .. Len(avg) :
                    /\ avg[k].kind = "float" /\ avg[k].den > 0
                    /\ avg[k].num < ComputationsPerInstance * avg[k].den
                    /\ (k < Len(avg)) => LeqFloat1024(avg[k], avg[k + 1])
    /\ IsAnalysis => (2 * ret.efficiency[1024].num = 1024 * ret.efficiency[1024].den)

C32_Witness ==
    /\ IsGraph
    /\ Len(ret.N_values) = 101
    /\ ret.N_values[6] = 1250
    /\ ret.avg_computations_per_clock[5] = Float(1000 * 1024, 2048)
    /\ ret.avg_computations_per_clock[6] = Float(1250 * 1024, 2274)
    /\ ret.avg_computations_per_clock[101] = Float(25000 * 1024, 26024)

\* C33: in a bank of 1 to 3990 rows both sweeps (triggered at ticks 10 and
\* 4000) complete, and in every sample from tick 4999 + total_rows on all
\* rows are settled in the initial colour, (t, total_rows, 0, 0), with the
\* master colour back at its initial value and the controller idle.
BothSweepsSettledAt == blue_to_green_start + (total_rows - 1) + SettlingNs

C33_BackToInitialColour ==
    (/\ pc \in {"loop", "done"}
     /\ total_rows >= 1
     /\ SweepEnd(green_to_blue_start) < blue_to_green_start
     /\ time_ns >= BothSweepsSettledAt) =>
        /\ Last(samples) = <<time_ns, total_rows, 0, 0>>
        /\ master_color = 0
        /\ ~change_in_progress
        /\ SweepsCompleted(time_ns) = 2

C33_Witness ==
    /\ pc = "loop"
    /\ total_rows = 3
    /\ time_ns = 5002
    /\ time_ns = BothSweepsSettledAt
    /\ samples[Len(samples) - 1] = <<5001, 2, 0, 1>>
    /\ Last(samples) = <<5002, 3, 0, 0>>
    /\ master_color = 0

====
